---- MODULE Spec2Model ----
(***************************************************************************)
(* rndout: a generator of random output whose rate follows a ramp or a     *)
(* logistic curve (src/main.go).  The model follows main(): validation of  *)
(* the flags, construction of the shaper and of the buffer pool, the two   *)
(* timers, and the emission loop with sampleSkips and RandomOutput.WriteN. *)
(*                                                                         *)
(* Time is a discrete clock of UnitsPerSecond units per second.  Floats    *)
(* are exact rationals <<num, den>>, 0/0 being NaN; r.Float64() draws from *)
(* the grid {0, 1/Grain, ..., (Grain-1)/Grain}; math.Exp is read from      *)
(* tables of rounded values, and is +Inf above 709.78.  The int64 of       *)
(* parseRate is kept at its full width as four limbs of 16 bits.           *)
(*                                                                         *)
(* Beside main, parseRate, NewRandomOutput, the two shapers, sampleSkips   *)
(* and WriteN are run on their own from bounded sets of arguments.         *)
(***************************************************************************)
EXTENDS Integers, Sequences, FiniteSets, TLC

\* ---------------------------------------------------------------- bounds
UnitsPerSecond == 2      \* clock units per second
MaxExtra == 1            \* seconds the clock runs on after the duration has elapsed
Grain == 4               \* r.Float64() returns j/Grain, j in 0..Grain-1
MaxK == 4                \* cap on the counter k of the Poisson loop
MaxN == 12               \* largest n of the stand-alone WriteN runs
MaxBlock == 4            \* largest block size of the stand-alone WriteN runs
MaxSkips == 4            \* largest expected skips of the stand-alone sampler runs
MaxPool == 2             \* largest pool of the stand-alone NewRandomOutput runs
MaxStep == 6             \* largest step of the stand-alone shaper runs
MaxScale == 49           \* largest scale of the stand-alone logistic runs
MaxMu == 2               \* largest early peak step of the logistic runs
MaxDigits == 2           \* longest digit string of the stand-alone parseRate runs
MaxPeak == 5             \* largest peak step of the stand-alone ramp runs
MaxCalls == 3            \* calls of w.Write counted while the writer takes nothing

Second == UnitsPerSecond

\* ------------------------------------------------------------ parseRate
Digits == <<"0", "1", "2", "3", "4", "5", "6", "7", "8", "9">>

IsDigit(c) == \E i \in 1..10 : Digits[i] = c

DigitVal(c) == (CHOOSE i \in 1..10 : Digits[i] = c) - 1

\* An int64 is kept as its 64 bits in two's complement: four limbs of 16
\* bits, the least significant first.  A number too wide for 64 bits is
\* kept in six limbs.
Limb == 65536

Zero64 == <<0, 0, 0, 0>>

ZeroWide == <<0, 0, 0, 0, 0, 0>>

\* w * m + c in the width of w, the carry out of the last limb dropped
RECURSIVE MulAdd(_, _, _)
MulAdd(w, m, c) ==
    IF w = <<>> THEN <<>>
    ELSE LET t == Head(w) * m + c
         IN  <<t % Limb>> \o MulAdd(Tail(w), m, t \div Limb)

\* -w in int64
Neg64(w) == MulAdd([i \in 1..4 |-> (Limb - 1) - w[i]], 1, 1)

\* the number a sequence of decimal digits writes, in the width of acc
RECURSIVE DigitsVal(_, _)
DigitsVal(s, acc) ==
    IF s = <<>> THEN acc
    ELSE DigitsVal(Tail(s), MulAdd(acc, 10, DigitVal(Head(s))))

\* a wide number is below 2^63
Below63(x) == x[5] = 0 /\ x[6] = 0 /\ x[4] < Limb \div 2

\* the wide number 2^63
IsPow63(x) == x = <<0, 0, 0, Limb \div 2, 0, 0>>

\* the int64 of a small value as an integer of the model
ToInt(w) ==
    LET nat(v) == v[1] + Limb * (v[2] + Limb * (v[3] + Limb * v[4]))
    IN  IF w[4] >= Limb \div 2 THEN 0 - nat(Neg64(w)) ELSE nat(w)

\* strconv.ParseInt(s, 10, 64): optional sign, then one or more digits; a
\* value outside of int64 is an error (strconv.ErrRange)
ParseInt(s) ==
    LET signed == s # <<>> /\ s[1] \in {"+", "-"}
        neg    == signed /\ s[1] = "-"
        body   == IF signed THEN Tail(s) ELSE s
    IN  IF body = <<>> \/ \E i \in 1..Len(body) : ~IsDigit(body[i])
        THEN [ok |-> FALSE, val |-> Zero64]
        ELSE LET x == DigitsVal(body, ZeroWide)
                 w == SubSeq(x, 1, 4)
             IN  IF Below63(x) \/ (neg /\ IsPow63(x))
                 THEN [ok |-> TRUE, val |-> IF neg THEN Neg64(w) ELSE w]
                 ELSE [ok |-> FALSE, val |-> Zero64]

RateScale(c) ==
    CASE c \in {"k", "K"} -> 1000
      [] c \in {"m", "M"} -> 1000000
      [] c \in {"g", "G"} -> 1000000000
      [] OTHER -> 1

\* scale * base in int64, scale a power of 1000: the product wraps
RECURSIVE Mul64(_, _)
Mul64(scale, base) ==
    IF scale = 1 THEN base
    ELSE Mul64(scale \div 1000, MulAdd(base, 1000, 0))

parseRate(s) ==
    IF s = <<>> THEN [ok |-> FALSE, val |-> Zero64]
    ELSE LET last  == s[Len(s)]
             scale == RateScale(last)
             body  == IF last \in {"k", "K", "m", "M", "g", "G"}
                      THEN SubSeq(s, 1, Len(s) - 1) ELSE s
             base  == ParseInt(body)
         IN  IF base.ok THEN [ok |-> TRUE, val |-> Mul64(scale, base.val)]
             ELSE [ok |-> FALSE, val |-> Zero64]

\* --------------------------------------------------------------- floats
\* int(x) of Go: truncation towards zero of the rational num/den, den > 0
IntTrunc(num, den) ==
    IF num >= 0 THEN num \div den ELSE 0 - ((0 - num) \div den)

\* math.Exp(h/2) in thousandths, h in -16..4
ExpMilliTable ==
    <<0, 1, 1, 2, 2, 4, 7, 11, 18, 30, 50, 82, 135, 223, 368, 607,
      1000, 1649, 2718, 4482, 7389>>

\* math.Exp(-float64(x) / float64(s)) in thousandths
ExpMilli(x, s) == ExpMilliTable[((0 - 2 * x) \div s) + 17]

\* math.Exp(-float64(skips)) in hundred-thousandths, skips in 1..6
ExpNeg(skips) ==
    <<36788, 13534, 4979, 1832, 674, 248>>[skips]

\* ------------------------------------------------------------- shapers
\* a float64 that is not a number, written 0/0
NaN == <<0, 0>>

IsNaN(f) == f[2] = 0

\* math.Exp(-float64(x) / float64(s)) is +Inf: the argument is above
\* 709.78; then 1 + a and b are +Inf and a / b is NaN
ExpOverflows(x, s) == (0 - x) * 100 > 70978 * s

\* the arguments the table of ExpMilli holds
ExpKnown(x, s) ==
    /\ (2 * x) % s = 0
    /\ (0 - 2 * x) \div s \in -16..4

\* s without its factors 2
RECURSIVE OddPart(_)
OddPart(s) == IF s % 2 = 0 THEN OddPart(s \div 2) ELSE s

\* the number of binary digits of o
RECURSIVE BitLen(_)
BitLen(o) == IF o = 0 THEN 0 ELSE 1 + BitLen(o \div 2)

\* 2^e modulo o
RECURSIVE Pow2Mod(_, _)
Pow2Mod(e, o) == IF e = 0 THEN 1 % o ELSE (2 * Pow2Mod(e - 1, o)) % o

\* float64(4*s) * (1 / float64(4*s)) rounds below 1.0. With o the odd part
\* of s and L its binary digits, the quotient 1/(4s) has the 53-bit
\* significand 2^(52+L) / o rounded to nearest; when it is rounded down by
\* the remainder r, the product is 1 - r * 2^-(52+L), which rounds to the
\* float64 below 1.0 when it is more than 2^-54 away from 1.0
PeakBelowOne(s) ==
    LET o == OddPart(s)
        L == BitLen(o)
        r == Pow2Mod(52 + L, o)
    IN  o > 1 /\ 2 * r < o /\ 4 * r > 2 ^ L

\* the float64 below 1.0, 1 - 2^-53, kept as 1 - 2^-16: the conversion to
\* int of a product with a rate below 2^16 cannot tell the two apart
UlpBelowOne == <<65535, 65536>>

\* LogisticShaper.Fraction(step), a rational <<num, den>>; at the peak
\* a = 1 and b = 4 * Scale exactly
LogisticFraction(s, step) ==
    IF ExpOverflows(step - s.Mu, s.Scale) THEN NaN
    ELSE IF step = s.Mu
    THEN IF PeakBelowOne(s.Scale) THEN UlpBelowOne ELSE <<1, 1>>
    ELSE LET a == ExpMilli(step - s.Mu, s.Scale)          \* a = A / 1000
             b == s.Scale * (1000 + a) * (1000 + a)       \* b = B / 1000000
         IN  <<4 * s.Scale * a * 1000, b>>

\* RampShaper.Fraction with the quotient taken in integers
RampFractionIntDiv(s, step) ==
    IF step < s.PeakStep THEN <<step \div s.PeakStep, 1>> ELSE <<1, 1>>

\* RampShaper.Fraction(step)
RampFraction(s, step) ==
    IF step < s.PeakStep THEN <<step, s.PeakStep>> ELSE <<1, 1>>

Fraction(s, step) ==
    IF s.kind = "logistic" THEN LogisticFraction(s, step)
    ELSE RampFraction(s, step)

\* charsPerStep := float64(rate) * opts.stepSize.Seconds()
CharsPerStep(r, stepSize) == <<r * stepSize, UnitsPerSecond>>

\* the conversion rounding up instead of truncating
NumCharsCeil(cps, s, step) ==
    LET f == Fraction(s, step)
    IN  (cps[1] * f[1] + cps[2] * f[2] - 1) \div (cps[2] * f[2])

\* n := int(charsPerStep * shaper.Fraction(step))
NumChars(cps, s, step) ==
    LET f == Fraction(s, step)
    IN  IntTrunc(cps[1] * f[1], cps[2] * f[2])

\* int(f) of a float64 that is not a number: the result depends on the
\* implementation; builds give the least int, 0 or the greatest int
NaNToInt == {0 - 2147483647 - 1, 0, 2147483647}

\* the skip count drawn again at every step
RedrawEveryStep(sliceIdx) == TRUE

\* if sliceIdx == 0: a slice begins and the skip count is drawn again
Redraw(sliceIdx) == sliceIdx = 0

\* the condition of the emission without the skip count
ActiveIgnoringSkips(sliceIdx, sliceLen, sk) == sliceIdx < sliceLen

\* the condition of the emission: sliceIdx < opts.sliceLen-skips
Active(sliceIdx, sliceLen, sk) == sliceIdx < sliceLen - sk

\* the gate of sampleSkips with the comparison of the draw turned around
SampleGateTurned(sk, u, skipProb) == sk <= 0 \/ u <= skipProb

\* the gate of sampleSkips with a strict comparison of the draw
SampleGateStrict(sk, u, skipProb) == sk <= 0 \/ u > skipProb

\* the gate of sampleSkips: skips <= 0 || r.Float64() >= skipProb
\* (u and skipProb are numerators over Grain)
SampleGate(sk, u, skipProb) == sk <= 0 \/ u >= skipProb

\* p <= l of the Poisson loop, p = q[1]/q[2], l = exp(-skips)
PoissonDone(q, sk) == q[1] * 100000 <= ExpNeg(sk) * q[2]

\* WriteN handing the whole buffer to w.Write whatever n is
ChunkLenWhole(bufLen, m) == bufLen

\* the length of the slice WriteN hands to w.Write
ChunkLen(bufLen, m) == IF bufLen > m THEN m ELSE bufLen

\* the slice taken from the front of the buffer, buf[:n]
ChunkStartPrefix(bufLen, m) == 0

\* the offset in its buffer of the slice WriteN hands to w.Write:
\* buf[len(buf)-n:] or buf
ChunkStart(bufLen, m) == IF bufLen > m THEN bufLen - m ELSE 0

\* the byte at offset i of a pool buffer as NewRandomOutput leaves it: the
\* newline at blockSize-1, a character of the alphabet before
BufByte(bufLen, i) == IF i = bufLen - 1 THEN "LF" ELSE "alpha"

\* the kinds of writer: one that takes every slice whole (os.Stdout), one
\* that may take a part of at least one byte, one that takes nothing
SinkKinds == {"full", "short", "zero"}

\* the counts nr that w.Write can return with a nil error for len bytes
Accepts(kind, len) ==
    IF kind = "full" THEN {len}
    ELSE IF kind = "short" THEN 1..len
    ELSE {0}

\* ------------------------------------------------------- configurations
Modes == {"logistic", "ramp"}

\* the flags (opts); skipProb is a numerator over Grain, times are in clock units
Base ==
    [rate |-> <<"8">>, mode |-> "ramp", skips |-> 2, skipProb |-> 0,
     duration |-> 2 * Second, stepSize |-> Second, sliceLen |-> 2,
     blockSize |-> 3, scale |-> 1, rampDuration |-> 2 * Second]

\* -rate 100 -step-size 1s -duration 5s -mode ramp -ramp-duration 5s
RampCfg ==
    [Base EXCEPT !.rate = <<"1", "0", "0">>, !.duration = 5 * Second,
                 !.rampDuration = 5 * Second, !.sliceLen = 16, !.blockSize = 32]

\* -slice-length 4 -skips 4 -skip-probability 1.0
SkipAllCfg ==
    [Base EXCEPT !.sliceLen = 4, !.skips = 4, !.skipProb = Grain,
                 !.stepSize = 1, !.duration = 5, !.rampDuration = 0]

\* a slice shorter than the draws of the sampler
ShortSliceCfg ==
    [Base EXCEPT !.rate = <<"6">>, !.skipProb = Grain, !.duration = 3 * Second,
                 !.blockSize = 4]

LogisticCfgs ==
    {[Base EXCEPT !.mode = "logistic", !.scale = sc, !.skips = 1,
                  !.skipProb = Grain \div 2, !.blockSize = 2] : sc \in {1, 2}}

SuffixCfg ==
    [Base EXCEPT !.rate = <<"1", "k">>, !.stepSize = 1, !.duration = Second,
                 !.rampDuration = Second, !.blockSize = 4096]

\* step size equal to the duration
EqualStepCfg == [Base EXCEPT !.duration = Second, !.rampDuration = 0]

\* -rate 0
ZeroRateCfg == [Base EXCEPT !.rate = <<"0">>]

BadCfgs ==
    {[Base EXCEPT !.rate = <<>>],
     [Base EXCEPT !.rate = <<"k">>],
     [Base EXCEPT !.rate = <<"1", "x">>],
     [Base EXCEPT !.skips = 3],
     [Base EXCEPT !.skipProb = Grain + 2],
     [Base EXCEPT !.skipProb = 0 - 2],
     [Base EXCEPT !.stepSize = 3 * Second],
     [Base EXCEPT !.mode = "bogus"],
     [Base EXCEPT !.mode = "bogus", !.stepSize = 0],
     [Base EXCEPT !.stepSize = 0],
     [Base EXCEPT !.blockSize = 0],
     [Base EXCEPT !.sliceLen = 0, !.skips = 0]}

Configs ==
    {Base, RampCfg, SkipAllCfg, ShortSliceCfg, SuffixCfg, EqualStepCfg,
     ZeroRateCfg}
        \cup LogisticCfgs \cup BadCfgs

\* ----------------------------------------------------------------- state
VARIABLES
    cfg,         \* opts, set by flag.Parse()
    pc,          \* position of main: start, top, poisson, select, write,
                 \* done (return), died (os.Exit(1)), panic (runtime panic)
    rate,        \* the parsed peak rate
    shaper,      \* the RateShaper
    step,        \* the loop counter
    skips,       \* the skip count of the current slice
    k, p,        \* locals of the Poisson loop of sampleSkips; p is a rational
    now,         \* clock units since the timers were created
    ticksFired,  \* deadlines of the ticker that have passed
    tickReady,   \* a tick is buffered in the channel steps
    endFired,    \* the timer of time.After has fired
    endReady,    \* its value is buffered in the channel end
    sinkOpen,    \* os.Stdout accepts writes
    arg,         \* the n WriteN was called with
    n,           \* the remaining count n inside WriteN
    err,         \* the result err of WriteN
    emitted,     \* bytes the sink accepted during the current WriteN
    written,     \* bytes the sink accepted in total
    writeCalls,  \* calls of w.Write
    errSeen,     \* a call of w.Write has returned an error
    tie,         \* the last select found both of its cases ready
    bufs,        \* the buffers NewRandomOutput is building (stand-alone runs)
    bi, bj,      \* the indices i and j of its loops, counted from 1
    frac,        \* the last result of shaper.Fraction(step), a rational
    samples,     \* calls of sampleSkips
    tickNo,      \* the deadline of the ticker whose tick is buffered
    gotTick,     \* the deadline of the tick main received last
    ticksGot,    \* ticks main has received
    chunk,       \* <<offset, length>> in its buffer of the last slice
                 \* passed to w.Write
    lastByte,    \* the last byte the sink accepted
    sink,        \* how the writer w answers: full, short or zero
    parsed       \* the result of parseRate (stand-alone runs)

vars ==
    <<cfg, pc, rate, shaper, step, skips, k, p, now, ticksFired, tickReady,
      endFired, endReady, sinkOpen, arg, n, err, emitted, written, writeCalls,
      errSeen, tie, bufs, bi, bj, frac, samples, tickNo, gotTick, ticksGot,
      chunk, lastByte, sink, parsed>>

timerVars == <<now, ticksFired, tickReady, endFired, endReady>>
writeVars == <<arg, n, err, emitted, written, writeCalls, errSeen>>
sampleVars == <<skips, k, p>>
poolVars == <<bufs, bi, bj>>
histVars ==
    <<frac, samples, tickNo, gotTick, ticksGot, chunk, lastByte, sink,
      parsed>>

NoShaper == [kind |-> "none", Mu |-> 0, Scale |-> 0, PeakStep |-> 0]

Running == {"top", "poisson", "select", "write"}

Draws == 0..(Grain - 1)

InitRest ==
    /\ rate = 0
    /\ shaper = NoShaper
    /\ step = 0
    /\ k = 0
    /\ p = <<1, 1>>
    /\ now = 0
    /\ ticksFired = 0
    /\ tickReady = FALSE
    /\ endFired = FALSE
    /\ endReady = FALSE
    /\ sinkOpen = TRUE
    /\ err = "nil"
    /\ emitted = 0
    /\ written = 0
    /\ writeCalls = 0
    /\ errSeen = FALSE
    /\ tie = FALSE
    /\ frac = <<0, 1>>
    /\ samples = 0
    /\ tickNo = 0
    /\ gotTick = 0
    /\ ticksGot = 0
    /\ chunk = <<0, 0>>
    /\ lastByte = "none"

\* parseRate not called on its own
NoParse == [ok |-> FALSE, val |-> Zero64]

\* no pool under construction
NoPool ==
    /\ parsed = NoParse
    /\ bufs = <<>>
    /\ bi = 0
    /\ bj = 0

Init ==
    /\ cfg \in Configs
    /\ pc = "start"
    /\ skips = 0
    /\ arg = 0
    /\ n = 0
    /\ InitRest
    /\ sink = "full"
    /\ NoPool

\* ------------------------------------------------------------------ main
\* the three checks of the flags that call die
ConfigRejected(c) ==
    \/ c.stepSize > c.duration
    \/ c.skips > c.sliceLen
    \/ c.skipProb > Grain
    \/ c.skipProb < 0

\* the shapers the switch on opts.mode can build
Shapers(c) ==
    IF c.mode = "logistic"
    THEN {[kind |-> "logistic", Mu |-> mu, Scale |-> c.scale, PeakStep |-> 0] :
             mu \in 0..((c.duration \div c.stepSize) - 1)}
    ELSE {[kind |-> "ramp", Mu |-> 0, Scale |-> 0,
           PeakStep |-> c.rampDuration \div c.stepSize]}

Halt(outcome) ==
    /\ pc' = outcome
    /\ UNCHANGED <<poolVars, histVars, cfg, tie, rate, shaper, step,
                   sampleVars, timerVars, sinkOpen, writeVars>>

\* main up to the creation of the timers
Startup ==
    /\ pc = "start"
    /\ LET pr == parseRate(cfg.rate)
       IN  IF ~pr.ok \/ ConfigRejected(cfg) THEN Halt("died")
           ELSE IF cfg.mode \notin Modes THEN Halt("died")
           ELSE IF cfg.stepSize = 0 THEN Halt("panic")
           ELSE IF cfg.mode = "logistic" /\ cfg.duration \div cfg.stepSize <= 0
                THEN Halt("panic")
           ELSE IF cfg.blockSize <= 0 THEN Halt("panic")
           ELSE /\ pc' = "top"
                /\ rate' = ToInt(pr.val)
                /\ shaper' \in Shapers(cfg)
                /\ UNCHANGED <<poolVars, histVars, cfg, tie, step, sampleVars,
                               timerVars, sinkOpen, writeVars>>

\* the head of the loop body: sliceIdx and the first part of sampleSkips
LoopTop ==
    /\ pc = "top"
    /\ UNCHANGED <<poolVars, frac, tickNo, gotTick, ticksGot, chunk, lastByte,
                   sink, parsed, cfg, tie, rate, shaper, step, timerVars,
                   sinkOpen, writeVars>>
    /\ IF cfg.sliceLen = 0
       THEN pc' = "panic" /\ UNCHANGED <<sampleVars, samples>>
       ELSE IF ~Redraw(step % cfg.sliceLen)
       THEN pc' = "select" /\ UNCHANGED <<sampleVars, samples>>
       ELSE /\ samples' = samples + 1
            /\ \E u \in Draws :
                  IF SampleGate(cfg.skips, u, cfg.skipProb)
                  THEN pc' = "select" /\ skips' = 0 /\ UNCHANGED <<k, p>>
                  ELSE pc' = "poisson" /\ k' = 0 /\ p' = <<1, 1>>
                       /\ UNCHANGED skips

\* one iteration of the Poisson loop of sampleSkips
PoissonStep ==
    /\ pc = "poisson"
    /\ UNCHANGED <<poolVars, histVars, cfg, tie, rate, shaper, step, timerVars,
                   sinkOpen, writeVars>>
    /\ \E u \in Draws :
          LET q == <<p[1] * u, p[2] * Grain>>
          IN  IF PoissonDone(q, cfg.skips)
              THEN pc' = "select" /\ skips' = k /\ k' = 0 /\ p' = <<1, 1>>
              ELSE /\ k < MaxK
                   /\ pc' = "poisson" /\ k' = k + 1 /\ p' = q
                   /\ UNCHANGED skips

\* case <-steps
SelectTick ==
    /\ pc = "select"
    /\ tickReady
    /\ tickReady' = FALSE
    /\ tie' = endReady
    /\ gotTick' = tickNo
    /\ ticksGot' = ticksGot + 1
    /\ UNCHANGED <<poolVars, samples, tickNo, chunk, lastByte, sink, parsed,
                   cfg, rate, shaper, sampleVars, now, ticksFired, endFired,
                   endReady, sinkOpen, written, writeCalls, errSeen>>
    /\ IF Active(step % cfg.sliceLen, cfg.sliceLen, skips)
       THEN /\ pc' = "write"
            /\ frac' = Fraction(shaper, step)
            /\ arg' \in IF IsNaN(Fraction(shaper, step)) THEN NaNToInt
                       ELSE {NumChars(CharsPerStep(rate, cfg.stepSize),
                                      shaper, step)}
            /\ n' = arg'
            /\ err' = "nil"
            /\ emitted' = 0
            /\ UNCHANGED step
       ELSE /\ pc' = "top"
            /\ step' = step + 1
            /\ UNCHANGED <<frac, arg, n, err, emitted>>

\* the return of main taken on a tick
SelectEndOnTick ==
    /\ pc = "select"
    /\ tickReady
    /\ pc' = "done"
    /\ tie' = endReady
    /\ UNCHANGED <<poolVars, histVars, cfg, rate, shaper, step, sampleVars,
                   timerVars, sinkOpen, writeVars>>

\* case <-end going on with the loop instead of returning
SelectEndContinues ==
    /\ pc = "select"
    /\ endReady
    /\ pc' = "top"
    /\ endReady' = FALSE
    /\ tie' = tickReady
    /\ UNCHANGED <<poolVars, histVars, cfg, rate, shaper, step, sampleVars,
                   now, ticksFired, tickReady, endFired, sinkOpen, writeVars>>

\* case <-end
SelectEnd ==
    /\ pc = "select"
    /\ endReady
    /\ pc' = "done"
    /\ tie' = tickReady
    /\ UNCHANGED <<poolVars, histVars, cfg, rate, shaper, step, sampleVars,
                   timerVars, sinkOpen, writeVars>>

\* one iteration of the loop of WriteN; main discards the error WriteN returns
WriteNStep ==
    /\ pc = "write"
    /\ n > 0
    /\ chunk' = <<ChunkStart(cfg.blockSize, n), ChunkLen(cfg.blockSize, n)>>
    /\ UNCHANGED <<poolVars, frac, samples, tickNo, gotTick, ticksGot,
                   sink, parsed, cfg, tie,
                   rate, shaper, sampleVars, timerVars, sinkOpen, arg>>
    /\ IF sinkOpen
       THEN \E nr \in Accepts(sink, chunk'[2]) :
                /\ n' = n - nr
                /\ emitted' = emitted + nr
                /\ written' = written + nr
                /\ lastByte' = IF nr > 0
                               THEN BufByte(cfg.blockSize, chunk'[1] + nr - 1)
                               ELSE lastByte
                /\ writeCalls' = IF nr = 0 /\ writeCalls >= MaxCalls
                                 THEN writeCalls ELSE writeCalls + 1
                /\ UNCHANGED <<pc, step, err, errSeen>>
       ELSE /\ writeCalls' = writeCalls + 1
            /\ err' = "EPIPE"
            /\ errSeen' = TRUE
            /\ pc' = "top"
            /\ step' = step + 1
            /\ UNCHANGED <<n, emitted, written, lastByte>>

\* the return of WriteN into an iteration that does not count the step
WriteNReturnSameStep ==
    /\ pc = "write"
    /\ n <= 0
    /\ pc' = "top"
    /\ step' = step
    /\ UNCHANGED <<poolVars, histVars, cfg, tie, rate, shaper, sampleVars,
                   timerVars, sinkOpen, writeVars>>

\* the exit of the loop of WriteN: return nil
WriteNReturn ==
    /\ pc = "write"
    /\ n <= 0
    /\ pc' = "top"
    /\ step' = step + 1
    /\ UNCHANGED <<poolVars, histVars, cfg, tie, rate, shaper, sampleVars,
                   timerVars, sinkOpen, writeVars>>

\* ----------------------------------------------------------- environment
\* the last instant of the clock
MaxTime == cfg.duration + MaxExtra * Second

TickDue == cfg.stepSize > 0 /\ (ticksFired + 1) * cfg.stepSize <= now

EndDue == ~endFired /\ cfg.duration <= now

\* the ticker of time.Tick sends without blocking: a tick is dropped when
\* the previous one has not been received
TickFire ==
    /\ pc \in Running
    /\ TickDue
    /\ ticksFired' = ticksFired + 1
    /\ tickReady' = TRUE
    /\ tickNo' = IF tickReady THEN tickNo ELSE ticksFired + 1
    /\ UNCHANGED <<poolVars, frac, samples, gotTick, ticksGot, chunk, lastByte,
                   sink, parsed, cfg, tie, pc, rate, shaper, step, sampleVars,
                   now, endFired, endReady, sinkOpen, writeVars>>

\* the timer of time.After
EndFire ==
    /\ pc \in Running
    /\ EndDue
    /\ endFired' = TRUE
    /\ endReady' = TRUE
    /\ UNCHANGED <<poolVars, histVars, cfg, tie, pc, rate, shaper, step,
                   sampleVars, now, ticksFired, tickReady, sinkOpen,
                   writeVars>>

\* the clock moves while main is blocked: in the select with neither
\* channel ready, or in a write; a select with a ready case and the
\* computation between the blocking calls take no clock unit
Advance ==
    /\ \/ pc = "write"
       \/ pc = "select" /\ ~tickReady /\ ~endReady
    /\ now < MaxTime
    /\ ~TickDue
    /\ ~EndDue
    /\ now' = now + 1
    /\ UNCHANGED <<poolVars, histVars, cfg, tie, pc, rate, shaper, step,
                   sampleVars, ticksFired, tickReady, endFired, endReady,
                   sinkOpen, writeVars>>

\* the reader of os.Stdout goes away
SinkBreak ==
    /\ pc \in Running
    /\ sinkOpen
    /\ sinkOpen' = FALSE
    /\ UNCHANGED <<poolVars, histVars, cfg, tie, pc, rate, shaper, step,
                   sampleVars, timerVars, writeVars>>

Next ==
    \/ Startup
    \/ LoopTop
    \/ PoissonStep
    \/ SelectTick
    \/ SelectEnd
    \/ WriteNStep
    \/ WriteNReturn
    \/ TickFire
    \/ EndFire
    \/ Advance
    \/ SinkBreak

Spec == Init /\ [][Next]_vars

\* select chooses at random among the ready cases, the runtime schedules
\* main and delivers the timers
FairSpec ==
    /\ Spec
    /\ WF_vars(Startup)
    /\ WF_vars(LoopTop)
    /\ WF_vars(PoissonStep)
    /\ WF_vars(SelectTick)
    /\ SF_vars(SelectEnd)
    /\ WF_vars(WriteNStep)
    /\ WF_vars(WriteNReturn)
    /\ WF_vars(TickFire)
    /\ WF_vars(EndFire)
    /\ WF_vars(Advance)

\* ---------------------------------------------- WriteN on its own
InitWriteN ==
    /\ \E bs \in 1..MaxBlock : cfg = [Base EXCEPT !.blockSize = bs]
    /\ pc = "write"
    /\ skips = 0
    /\ arg \in 0..MaxN
    /\ n = arg
    /\ InitRest
    /\ sink = "full"
    /\ NoPool

NextWriteN ==
    \/ WriteNStep
    \/ WriteNReturn
    \/ SinkBreak

SpecWriteN == InitWriteN /\ [][NextWriteN]_vars

\* WriteN(w, n) for every kind of writer w
InitSink ==
    /\ \E bs \in 1..MaxBlock : cfg = [Base EXCEPT !.blockSize = bs]
    /\ pc = "write"
    /\ skips = 0
    /\ arg \in 0..MaxN
    /\ n = arg
    /\ InitRest
    /\ sink \in SinkKinds
    /\ NoPool

\* the loop of WriteN goes on while its condition holds, and returns when
\* it does not
SpecSink ==
    /\ InitSink
    /\ [][NextWriteN]_vars
    /\ WF_vars(WriteNStep)
    /\ WF_vars(WriteNReturn)

\* ---------------------------------------------- sampleSkips on its own
InitSample ==
    /\ \E sk \in (0 - 1)..MaxSkips, pr \in 0..Grain :
          cfg = [Base EXCEPT !.skips = sk, !.skipProb = pr,
                             !.sliceLen = MaxSkips]
    /\ pc = "top"
    /\ skips \in 0..2
    /\ arg = 0
    /\ n = 0
    /\ InitRest
    /\ sink = "full"
    /\ NoPool

NextSample ==
    \/ LoopTop
    \/ PoissonStep

SpecSample == InitSample /\ [][NextSample]_vars

\* ------------------------------------------------ parseRate on its own
\* the digit strings of the runs
DigitStrings ==
    UNION {[1..l -> {Digits[i] : i \in 1..10}] : l \in 1..MaxDigits}

\* the suffixes parseRate knows, and none
Suffixes == {<<>>, <<"k">>, <<"K">>, <<"m">>, <<"M">>, <<"g">>, <<"G">>}

\* strings around the limits of int64: 2^63-1, 2^63, and products with the
\* multiplier above 2^63-1
LongRates ==
    {<<"9", "2", "2", "3", "3", "7", "2", "0", "3", "6",
       "8", "5", "4", "7", "7", "5", "8", "0", "7">>,
     <<"9", "2", "2", "3", "3", "7", "2", "0", "3", "6",
       "8", "5", "4", "7", "7", "5", "8", "0", "8">>,
     <<"9", "2", "2", "3", "3", "7", "2", "0", "3", "7", "G">>,
     <<"2", "0", "0", "0", "0", "0", "0", "0", "0", "0", "0", "0", "0",
       "0", "M">>}

\* the values of -rate of the runs
RateInputs ==
    {d \o x : d \in DigitStrings, x \in Suffixes}
        \cup Suffixes \cup LongRates
        \cup {<<"1", "x">>, <<"-", "5">>, <<"+", "5", "k">>, <<"-">>}

InitParse ==
    /\ \E str \in RateInputs : cfg = [Base EXCEPT !.rate = str]
    /\ pc = "start"
    /\ skips = 0
    /\ arg = 0
    /\ n = 0
    /\ InitRest
    /\ sink = "full"
    /\ bufs = <<>>
    /\ bi = 0
    /\ bj = 0
    /\ parsed = NoParse

\* rate, err := parseRate(opts.peakRate)
ParseRateCall ==
    /\ pc = "start"
    /\ pc' = "parsed"
    /\ parsed' = parseRate(cfg.rate)
    /\ UNCHANGED <<cfg, tie, rate, shaper, step, sampleVars, timerVars,
                   sinkOpen, writeVars, poolVars, frac, samples, tickNo,
                   gotTick, ticksGot, chunk, lastByte, sink>>

NextParse == ParseRateCall

SpecParse == InitParse /\ [][NextParse]_vars

\* ------------------------------------------------ a shaper on its own
\* main blocked in the select of step st with the tick of that step
\* buffered, the shaper being one of S
InitFraction(S) ==
    /\ shaper \in S
    /\ step \in 0..MaxStep
    /\ cfg = [Base EXCEPT
                 !.mode = shaper.kind,
                 !.skips = 0,
                 !.duration = ((IF shaper.Mu > MaxStep THEN shaper.Mu
                                ELSE MaxStep) + 2) * Base.stepSize,
                 !.rampDuration = shaper.PeakStep * Base.stepSize,
                 !.blockSize = IF shaper.Mu > MaxStep THEN 2147483647
                               ELSE Base.blockSize,
                 !.scale = IF shaper.kind = "logistic" THEN shaper.Scale
                           ELSE Base.scale]
    /\ pc = "select"
    /\ rate = 8
    /\ skips = 0
    /\ k = 0
    /\ p = <<1, 1>>
    /\ ticksFired = step + 1
    /\ now = ticksFired * cfg.stepSize
    /\ tickReady = TRUE
    /\ endFired = FALSE
    /\ endReady = FALSE
    /\ sinkOpen = TRUE
    /\ arg = 0
    /\ n = 0
    /\ err = "nil"
    /\ emitted = 0
    /\ written = 0
    /\ writeCalls = 0
    /\ errSeen = FALSE
    /\ tie = FALSE
    /\ frac = <<0, 1>>
    /\ samples = (step \div cfg.sliceLen) + 1
    /\ tickNo = step + 1
    /\ gotTick = step
    /\ ticksGot = step
    /\ chunk = <<0, 0>>
    /\ lastByte = "none"
    /\ sink = "full"
    /\ NoPool

\* every RampShaper with a peak step up to MaxPeak
InitRamp ==
    InitFraction({[kind |-> "ramp", Mu |-> 0, Scale |-> 0, PeakStep |-> ps] :
                     ps \in 0..MaxPeak})

\* a peak step so late that math.Exp overflows at every step of the runs
LateMu == 710 + MaxStep

\* the LogisticShapers of the runs: small scales around early peak steps,
\* every scale up to MaxScale, and scale 1 with a late peak step
LogisticShapers ==
    {[kind |-> "logistic", Mu |-> mu, Scale |-> sc, PeakStep |-> 0] :
        mu \in 0..MaxMu, sc \in 1..MaxScale}
    \cup {[kind |-> "logistic", Mu |-> LateMu, Scale |-> 1, PeakStep |-> 0]}

\* the steps at which the model knows math.Exp: the peak, an overflow or an
\* argument of the table
InitLogistic ==
    /\ InitFraction(LogisticShapers)
    /\ \/ step = shaper.Mu
       \/ ExpOverflows(step - shaper.Mu, shaper.Scale)
       \/ ExpKnown(step - shaper.Mu, shaper.Scale)

\* the tick is received, the fraction computed and the count written
NextFraction ==
    \/ SelectTick
    \/ WriteNStep
    \/ WriteNReturn

SpecRamp == InitRamp /\ [][NextFraction]_vars

SpecLogistic == InitLogistic /\ [][NextFraction]_vars

\* ------------------------------------------ NewRandomOutput on its own
\* const alphabet
alphabet ==
    <<"a", "b", "c", "d", "e", "f", "g", "h", "i", "j", "k", "l", "m",
      "n", "o", "p", "q", "r", "s", "t", "u", "v", "w", "x", "y", "z",
      "A", "B", "C", "D", "E", "F", "G", "H", "I", "J", "K", "L", "M",
      "N", "O", "P", "Q", "R", "S", "T", "U", "V", "W", "X", "Y", "Z",
      "0", "1", "2", "3", "4", "5", "6", "7", "8", "9", ".", "-", " ">>

\* the values of r.Intn(len(alphabet)) the runs draw, counted from 1
AlphaDraws == {1, Len(alphabet)}

\* the newline put on the first byte of the buffer
NewlineAtFirst(blockSize) == 1

\* the index blockSize-1 of the newline, counted from 1
NewlineAt(blockSize) == blockSize

\* bufs := make([][]byte, n) and bufs[i] = make([]byte, blockSize), zeroed
InitPool ==
    /\ \E bs \in 1..MaxBlock : cfg = [Base EXCEPT !.blockSize = bs]
    /\ \E sz \in 1..MaxPool :
          bufs = [i \in 1..sz |-> [j \in 1..cfg.blockSize |-> "NUL"]]
    /\ bi = 1
    /\ bj = 1
    /\ pc = "fill"
    /\ skips = 0
    /\ arg = 0
    /\ n = 0
    /\ parsed = NoParse
    /\ InitRest
    /\ sink = "full"

\* bufs[i][j] = byte(alphabet[r.Intn(len(alphabet))])
PoolFillByte ==
    /\ pc = "fill"
    /\ bi <= Len(bufs)
    /\ bj <= cfg.blockSize
    /\ \E x \in AlphaDraws : bufs' = [bufs EXCEPT ![bi][bj] = alphabet[x]]
    /\ bj' = bj + 1
    /\ UNCHANGED <<histVars, cfg, pc, tie, rate, shaper, step, sampleVars,
                   timerVars, sinkOpen, writeVars, bi>>

\* bufs[i][blockSize-1] = '\n' and the next i
PoolEndBuffer ==
    /\ pc = "fill"
    /\ bi <= Len(bufs)
    /\ bj > cfg.blockSize
    /\ bufs' = [bufs EXCEPT ![bi][NewlineAt(cfg.blockSize)] = "LF"]
    /\ bi' = bi + 1
    /\ bj' = 1
    /\ UNCHANGED <<histVars, cfg, pc, tie, rate, shaper, step, sampleVars,
                   timerVars, sinkOpen, writeVars>>

\* return &RandomOutput{bufs: bufs, r: r}
PoolReturn ==
    /\ pc = "fill"
    /\ bi > Len(bufs)
    /\ pc' = "built"
    /\ UNCHANGED <<histVars, cfg, tie, rate, shaper, step, sampleVars,
                   timerVars, sinkOpen, writeVars, poolVars>>

NextPool ==
    \/ PoolFillByte
    \/ PoolEndBuffer
    \/ PoolReturn

SpecPool == InitPool /\ [][NextPool]_vars

TypeOK ==
    /\ pc \in Running \cup {"start", "done", "died", "panic", "fill", "built",
               "parsed"}
    /\ sink \in SinkKinds
    /\ lastByte \in {"none", "LF", "alpha"}
    /\ samples \in Nat
    /\ tickNo \in Nat
    /\ gotTick \in Nat
    /\ ticksGot \in Nat
    /\ now \in Nat
    /\ step \in Nat
    /\ skips \in 0..MaxK
    /\ written \in Nat
    /\ err \in {"nil", "EPIPE"}

\* =================================================================
\* Properties
\* =================================================================

\* C1: once a write to the sink has returned an error, no later step calls
\* Write again and the run does not end as a normal return.
C1_WriteErrorIsFatal ==
    [][errSeen => (writeCalls' = writeCalls /\ pc' # "done")]_vars

\* C2 as stated: whenever the select finds both the tick and the duration
\* signal ready, the loop terminates and does not process the step.
C2_DurationWinsTies ==
    [][(pc = "select" /\ tickReady /\ endReady) => pc' \in {"select", "done"}]_vars

\* C2 amended: when both are ready the select takes either case; taking the
\* duration signal terminates the run and emits nothing, taking the tick
\* processes the step and leaves the duration signal pending; the run
\* terminates only by the duration signal, after the duration has elapsed.
C2_EitherCaseOnTie ==
    [][/\ (pc = "select" /\ tickReady /\ endReady /\ pc' # "select") =>
             \/ pc' = "done" /\ written' = written /\ writeCalls' = writeCalls
             \/ pc' \in {"write", "top"} /\ ~tickReady' /\ endReady'
       /\ (pc # "done" /\ pc' = "done") =>
             (pc = "select" /\ endReady /\ cfg.duration <= now)]_vars

\* the tick won a tie: the step is processed although the duration has elapsed
C2_Witness == tie /\ pc = "write" /\ endReady /\ arg > 0

\* C3: WriteN(w, n) with a sink that accepts every byte writes exactly n
\* bytes in total, calls Write not at all for n = 0, and returns nil.
C3_WriteNExact ==
    (pc = "top" /\ ~errSeen) =>
        /\ written = arg
        /\ emitted = arg
        /\ err = "nil"
        /\ (arg = 0 => writeCalls = 0)

C3_Witness ==
    pc = "top" /\ ~errSeen /\ written = arg /\ arg > 2 * cfg.blockSize

\* C4 as stated: with slice length 4, expected skips 4 and skip probability
\* 1.0 the run writes no byte.
C4_NoOutputAtAll == (cfg = SkipAllCfg) => written = 0

\* C4 amended: with slice length 4, expected skips 4 and skip probability
\* 1.0 every slice takes its skip count from the Poisson draw (the gate of
\* the probability never returns 0), and a step writes only when
\* sliceIdx < 4 - skips: a slice is silent when its draw is 4 or more.
C4_SkipsFollowTheDraw ==
    [][(cfg = SkipAllCfg) =>
          /\ (pc = "top" /\ step % 4 = 0 /\ pc' # "top") => pc' = "poisson"
          /\ (writeCalls' > writeCalls) => (step % 4) < 4 - skips
          /\ (pc = "select" /\ skips >= 4 /\ pc' # "select") =>
                (pc' \in {"top", "done"} /\ written' = written)]_vars

\* a draw below 4 left a step of the slice active, and it wrote
C4_Witness ==
    cfg = SkipAllCfg /\ skips \in 1..3 /\ written > 0 /\ pc = "write"

\* C5: a step writes only if sliceIdx < sliceLen - skips; with skips >=
\* sliceLen no step of the slice writes and the loop goes on without failing.
C5_EmitOnlyWhenActive ==
    [][/\ (writeCalls' > writeCalls \/ (pc = "select" /\ pc' = "write")) =>
             (step % cfg.sliceLen) < cfg.sliceLen - skips
       /\ (pc = "select" /\ cfg.sliceLen > 0 /\ skips >= cfg.sliceLen
             /\ pc' # "select") =>
             (pc' \in {"top", "done"} /\ written' = written
                 /\ writeCalls' = writeCalls)]_vars

\* a draw of at least sliceLen, and the first step of that slice processed
C5_Witness ==
    /\ cfg.sliceLen > 0
    /\ skips >= cfg.sliceLen
    /\ pc = "top"
    /\ step % cfg.sliceLen = 1

\* the preconditions of section 6, with a positive slice length and step
ValidCfg(c) ==
    /\ parseRate(c.rate).ok
    /\ ToInt(parseRate(c.rate).val) > 0
    /\ c.mode \in Modes
    /\ c.stepSize > 0
    /\ c.stepSize <= c.duration
    /\ c.sliceLen > 0
    /\ c.skips <= c.sliceLen
    /\ c.skipProb \in 0..Grain
    /\ c.blockSize > 0
    /\ c.scale > 0

C7_Expected ==
    LET r == ToInt(parseRate(cfg.rate).val)
    IN  IF shaper.kind = "ramp"
        THEN IF step < shaper.PeakStep
             THEN (r * cfg.stepSize * step) \div (UnitsPerSecond * shaper.PeakStep)
             ELSE (r * cfg.stepSize) \div UnitsPerSecond
        ELSE LET a == ExpMilli(step - shaper.Mu, shaper.Scale)
             IN  (r * cfg.stepSize * 4 * a * 1000)
                     \div (UnitsPerSecond * (1000 + a) * (1000 + a))

\* C7: when WriteN has finished the writes of an active step without an
\* error, the sink has accepted exactly
\* floor(peakRate * stepDurationSeconds * Fraction(step)) bytes in that step.
C7_ExactCount ==
    (pc = "write" /\ n <= 0) => (n = 0 /\ emitted = C7_Expected)

C7_Witness ==
    pc = "write" /\ n = 0 /\ step > 0 /\ emitted > cfg.blockSize
        /\ shaper.kind = "logistic"

\* no tick of the ticker was dropped
NoTickLost == ticksFired = step + (IF tickReady THEN 1 ELSE 0)

\* C8 as stated: the run of -rate 100 -step-size 1s -duration 5s -mode ramp
\* -ramp-duration 5s processes steps 0..4 and has written 200 bytes when it
\* returns (looked at in the runs that lose no tick, suffer no write error
\* and have processed steps 0..3).
C8_TotalIs200 ==
    (cfg = RampCfg /\ pc = "done" /\ ~errSeen /\ NoTickLost /\ step >= 4) =>
        (step = 5 /\ written = 200)

\* 0 + 20 + ... for the steps below s, 100 for each step from the peak on
RampTotal(s) == IF s <= 5 THEN 10 * s * (s - 1) ELSE 200 + 100 * (s - 5)

\* C8 amended: in that run the steps are processed in order, step s writes
\* 20*s bytes for s in 0..4, and the total after s steps is the sum over the
\* steps processed; the tick of step 4 falls due together with the duration
\* timer, so the run may return after steps 0..3 with 120 bytes, and has
\* written 200 bytes only if step 4 was taken before the duration signal.
C8_TotalFollowsSteps ==
    (cfg = RampCfg /\ ~errSeen) =>
        /\ step <= ticksFired
        /\ (pc = "write" /\ step <= 4) => arg = 20 * step
        /\ (pc \in {"top", "poisson", "select", "done"}) =>
              written = RampTotal(step)
        /\ (pc = "done" /\ written = 200) => step = 5

\* the duration signal was taken before the tick of step 4
C8_Witness ==
    cfg = RampCfg /\ pc = "done" /\ ~errSeen /\ NoTickLost /\ step = 4
        /\ written = 120

\* the configurations C9 lists as errors
ConfigError(c) ==
    \/ ~parseRate(c.rate).ok
    \/ c.skips > c.sliceLen
    \/ c.skipProb < 0
    \/ c.skipProb > Grain
    \/ c.stepSize >= c.duration
    \/ c.mode \notin Modes

\* C9: a configuration error ends the run with an error before the loop is
\* entered and before anything is written.
C9_ConfigErrorsStopTheRun ==
    ConfigError(cfg) => (pc \in {"start", "died"} /\ written = 0)

\* C10: sampleSkips returns 0 whenever the expected skips are <= 0 and
\* whenever the skip probability is 0, whatever the random source yields.
C10_SampleZero ==
    [][(pc = "top" /\ (cfg.skips <= 0 \/ cfg.skipProb = 0)) =>
          (pc' = "select" /\ skips' = 0)]_vars

\* the sampler has returned 0 for a positive k with probability 0, replacing
\* the count of the slice before
C10_Witness ==
    pc = "select" /\ cfg.skips > 0 /\ cfg.skipProb = 0 /\ skips = 0

\* the members of the alphabet
AlphabetSet == {alphabet[i] : i \in 1..Len(alphabet)}

\* every buffer ends with the newline and holds members of the alphabet before
PoolWellFormed ==
    \A i \in 1..Len(bufs) :
        /\ bufs[i][Len(bufs[i])] = "LF"
        /\ \A j \in 1..(Len(bufs[i]) - 1) : bufs[i][j] \in AlphabetSet

\* C11 as stated: every buffer NewRandomOutput returns ends with a newline,
\* its other bytes are members of the alphabet, and the alphabet has exactly
\* 64 characters.
C11_PoolOver64 ==
    (pc = "built") => (PoolWellFormed /\ Cardinality(AlphabetSet) = 64)

\* C11 amended: every buffer NewRandomOutput returns ends with a newline and
\* its other bytes are members of the alphabet, which has exactly 65
\* characters (52 letters, 10 digits, '.', '-' and the space).
C11_PoolOver65 ==
    /\ (pc = "built") => PoolWellFormed
    /\ Len(alphabet) = 65
    /\ Cardinality(AlphabetSet) = 65

\* a pool of two buffers of three bytes or more, the last character of the
\* alphabet among them
C11_Witness ==
    /\ pc = "built"
    /\ Len(bufs) >= 2
    /\ Len(bufs[1]) >= 3
    /\ bufs[1][1] = " "
    /\ bufs[2][Len(bufs[2])] = "LF"

\* a <= b for rationals with positive denominators
FracLeq(a, b) == a[1] * b[2] <= b[1] * a[2]

\* C12: for every peak step >= 0 and every step >= 0, RampShaper.Fraction
\* lies in [0,1], equals step/peakStep below the peak step and 1.0 from the
\* peak step on, and does not decrease with the step.
C12_RampFraction ==
    (pc = "write" /\ shaper.kind = "ramp") =>
        /\ frac[2] > 0
        /\ FracLeq(<<0, 1>>, frac)
        /\ FracLeq(frac, <<1, 1>>)
        /\ (step < shaper.PeakStep) =>
               frac[1] * shaper.PeakStep = step * frac[2]
        /\ (step >= shaper.PeakStep) => frac[1] = frac[2]
        /\ \A t \in 0..step : FracLeq(RampFraction(shaper, t), frac)

\* three quarters of the peak rate at step 3 of a ramp of 4 steps
C12_Witness ==
    /\ pc = "write"
    /\ shaper.kind = "ramp"
    /\ shaper.PeakStep = 4
    /\ step = 3
    /\ frac[1] * 4 = frac[2] * 3
    /\ arg = 6

\* a fraction computed from the table of math.Exp, in thousandths
ToMilli(f) == f[1] \div (f[2] \div 1000)

\* two such fractions no more than 2/1000 apart: the precision of the table
FracNear(a, b) ==
    LET d == ToMilli(a) - ToMilli(b)
    IN  (IF d < 0 THEN 0 - d ELSE d) <= 2

\* C13: with scale > 0, LogisticShaper.Fraction lies in [0,1] at every
\* step, is exactly 1.0 at step mu, and takes the same value at mu + d and
\* mu - d (compared here up to the precision of the table of math.Exp, at
\* the mirrored steps the table covers).
C13_LogisticFraction ==
    (pc = "write" /\ shaper.kind = "logistic") =>
        /\ ~IsNaN(frac)
        /\ FracLeq(<<0, 1>>, frac)
        /\ FracLeq(frac, <<1, 1>>)
        /\ (step = shaper.Mu) => frac[1] = frac[2]
        /\ LET mirror == 2 * shaper.Mu - step
           IN  (/\ mirror >= 0
                /\ mirror # step
                /\ ExpKnown(step - shaper.Mu, shaper.Scale)
                /\ ExpKnown(mirror - shaper.Mu, shaper.Scale)) =>
                   FracNear(frac, LogisticFraction(shaper, mirror))

\* the string is one or more decimal digits
IsDecimal(s) == s # <<>> /\ \A i \in 1..Len(s) : IsDigit(s[i])

\* the non-negative int64 w is the wide number x
SameNumber(w, x) == w[4] < Limb \div 2 /\ w \o <<0, 0>> = x

\* the number d * 10^e for a digit string d: d followed by e zeros
TimesPow10(d, e) == DigitsVal(d \o [i \in 1..e |-> "0"], ZeroWide)

\* C14: for every decimal integer string d, parseRate(d) = d,
\* parseRate(d + "k") = d * 10^3, parseRate(d + "M") = d * 10^6 and
\* parseRate(d + "G") = d * 10^9, and the empty string is an error.
C14_ParseRate ==
    (pc = "parsed") =>
        LET str  == cfg.rate
            body == SubSeq(str, 1, Len(str) - 1)
        IN  /\ (str = <<>>) => ~parsed.ok
            /\ IsDecimal(str) =>
                   (parsed.ok /\ SameNumber(parsed.val, TimesPow10(str, 0)))
            /\ \A x \in {<<"k", 3>>, <<"M", 6>>, <<"G", 9>>} :
                   (str # <<>> /\ str[Len(str)] = x[1] /\ IsDecimal(body)) =>
                      (parsed.ok
                          /\ SameNumber(parsed.val, TimesPow10(body, x[2])))

RedrawStep ==
    /\ (skips' # skips \/ samples' # samples) =>
          (/\ pc \in {"top", "poisson"}
           /\ step % cfg.sliceLen = 0
           /\ step' = step)
    /\ (samples' # samples) => (pc = "top" /\ samples' = samples + 1)
    /\ (/\ pc = "top"
        /\ pc' # "top"
        /\ cfg.sliceLen > 0
        /\ step % cfg.sliceLen = 0) => samples' = samples + 1
    /\ (pc \in {"select", "write"}) => skips' = skips

\* C16: the skip count is drawn once per slice, at the steps with
\* step mod sliceLen = 0 and before the select of that step; at every other
\* step, and from the select on, skips keeps its value, so all the steps of
\* a slice are judged against the same value.
C16_RedrawOncePerSlice ==
    /\ [](pc \in {"select", "write"} =>
             samples = (step \div cfg.sliceLen) + 1)
    /\ [][RedrawStep]_vars

\* the second step of the second slice, judged against the skips drawn at
\* its first step
C16_Witness ==
    /\ pc = "select"
    /\ samples = 2
    /\ step = cfg.sliceLen + 1
    /\ skips > 0

\* ticks the ticker dropped because the one before was still buffered
TicksDropped == ticksFired - ticksGot - (IF tickReady THEN 1 ELSE 0)

\* what a step of the program does to the step counter
StepAdvance ==
    /\ step' \in {step, step + 1}
    /\ ticksGot' \in {ticksGot, ticksGot + 1}
    /\ (ticksGot' # ticksGot) => (pc = "select" /\ gotTick' > gotTick)
    /\ (step' # step) => pc \in {"select", "write"}

\* C17 as stated: the step counter advances by one per step duration
\* elapsed, so the step index passed to the shaper is the number of step
\* durations fully elapsed before the tick being processed, also when a
\* write to the sink takes longer than one step duration.
C17_StepIsElapsedTime ==
    (pc = "write") => step = gotTick - 1

\* C17 amended: the step counter starts at 0, never decreases, and advances
\* by exactly one per tick received from the ticker.  The step index passed
\* to the shaper is the number of ticks received before the one being
\* processed; it is at most the number of step durations fully elapsed
\* before that tick, and equal to it as long as the ticker has dropped no
\* tick.  A write that lasts longer than a step duration makes the ticker
\* drop ticks, and the step index stays behind from then on.
C17_StepCountsTicks ==
    /\ [](/\ (pc = "start") => step = 0
          /\ (pc \in {"top", "poisson", "select"}) => step = ticksGot
          /\ (pc = "write") =>
                (/\ step = ticksGot - 1
                 /\ step <= gotTick - 1
                 /\ gotTick <= ticksFired
                 /\ (TicksDropped = 0) => step = gotTick - 1
                 /\ (step < gotTick - 1) => TicksDropped > 0))
    /\ [][StepAdvance]_vars

\* a step whose tick came after one dropped during a write
C17_Witness ==
    /\ pc = "write"
    /\ TicksDropped > 0
    /\ step < gotTick - 1

\* what a call of w.Write is given: the trailing bytes of a buffer, the
\* whole of it when n is not below its length, the last n otherwise
ChunkStep ==
    (writeCalls' # writeCalls) =>
        /\ chunk'[1] + chunk'[2] = cfg.blockSize
        /\ chunk'[2] = (IF n < cfg.blockSize THEN n ELSE cfg.blockSize)
        /\ chunk'[1] = 0 \/ chunk'[2] = n
        /\ BufByte(cfg.blockSize, chunk'[1] + chunk'[2] - 1) = "LF"

\* C18: every chunk WriteN passes to the sink is a whole pool buffer or the
\* trailing n bytes of one, never a prefix, so every chunk ends with the
\* newline of its buffer, and the output stream ends with a newline after
\* any step that emitted at least one byte.
C18_ChunksEndWithNewline ==
    /\ [](/\ (writeCalls > 0) =>
                (/\ chunk[2] >= 1
                 /\ chunk[1] + chunk[2] = cfg.blockSize)
          /\ (written > 0) => lastByte = "LF"
          /\ (written = 0) => lastByte = "none")
    /\ [][ChunkStep]_vars

\* the last two bytes of a buffer of three were written to end a count of
\* eight
C18_Witness ==
    /\ pc = "write"
    /\ arg = 8
    /\ n = 0
    /\ chunk = <<1, 2>>
    /\ lastByte = "LF"
    /\ written >= 8

\* what a call of w.Write does to the remaining count
CountStep ==
    /\ (emitted' > emitted) => (n' < n /\ n' >= 0)
    /\ (emitted' = emitted) => n' = n
    /\ (sink = "zero" /\ pc = "write" /\ n > 0 /\ sinkOpen') =>
          (pc' = "write" /\ n' = n)

\* C19: inside WriteN the remaining count n is never negative and strictly
\* decreases on every write that accepts at least one byte, so WriteN
\* returns for every n and every writer that accepts at least one byte per
\* call; with a writer that reports 0 bytes and no error WriteN never
\* returns and n keeps its value.
C19_WriteNProgress ==
    /\ [](n >= 0 /\ n <= arg /\ emitted = arg - n)
    /\ [][CountStep]_vars
    /\ (pc = "write" /\ sink # "zero") ~> (pc = "top")
    /\ []((sink = "zero" /\ arg > 0 /\ ~errSeen) => (pc = "write" /\ n = arg))

\* a writer that took one byte per call has been given all the bytes of a
\* count of two blocks or more
C19_Witness ==
    /\ sink = "short"
    /\ pc = "top"
    /\ arg >= 2 * cfg.blockSize
    /\ cfg.blockSize >= 2
    /\ emitted = arg
    /\ writeCalls = arg

====
